---- MODULE Spec2Model ----
(***************************************************************************)
(* Model of lib/twi/twi.c: the polling TWI/I2C driver (twi_init,           *)
(* twi_start, twi_write, twi_read, twi_stop) and the bus scanner twi_scan, *)
(* with the TWI peripheral registers they use and the UART byte-sink.      *)
(***************************************************************************)
EXTENDS Integers, Sequences, FiniteSets, TLC

(* ------------------------------------------------------------------ *)
(* Bounds of the model                                                  *)
(* ------------------------------------------------------------------ *)
\* how many devices may sit on the bus at once
MaxDevices == 2
\* how many times the caller invokes twi_scan in succession
NumRuns == 2
\* acknowledged probes recorded per run before the record saturates
MaxAcks == 4
\* per-address operation counters saturate here (0, 1, "more than one")
MaxCount == 2

(* ------------------------------------------------------------------ *)
(* Program constants                                                    *)
(* ------------------------------------------------------------------ *)
\* bit numbers of the control register TWCR
TWINT == 7
TWSTA == 5
TWSTO == 4
TWEN == 2
TWEA == 6
\* prescaler bits of the status register TWSR
TWPS1 == 1
TWPS0 == 0
\* pins of the port that carry SDA and SCL
TWI_SDA_PIN == 4
TWI_SCL_PIN == 5
\* value twi_init loads into TWBR (16 MHz clock, 100 kHz SCL)
TWI_BIT_RATE_REG == 72
\* argument of twi_read that asks for an acknowledge
TWI_ACK == 1
\* direction bit or-ed into the probe byte
TWI_WRITE == 0
\* first address scanned and the exclusive upper limit of the loop
SlaFirst == 8
SlaLimit == 120
\* radix handed to itoa
Radix == 16
\* status codes twi_write takes for "ACK received"
SLA_W_ACK == 24
DATA_ACK == 40
SLA_R_ACK == 64
\* mask applied to TWSR
StatusMask == 248
\* the characters of the line break "\r\n"
CR == 13
LF == 10

Byte == 0..255
Addr7 == 0..127

\* addresses at which a device may be present: the scan range's two ends,
\* the two reserved neighbours 7 and 120, and three mid-range devices
\* (0x3c, 0x57, 0x68)
Candidates == {7, 8, 60, 87, 104, 119, 120}
DeviceSets == {D \in SUBSET Candidates : Cardinality(D) <= MaxDevices}

\* what the build placed in the byte that follows `char string[2]`
Layouts == {"pad", "ack", "sla", "saved"}

\* status codes the peripheral reports for an address byte nobody answered
\* (SLA+W NACK, arbitration lost)
NackStatus == {32, 56}
\* status codes after a START condition has been transmitted
StartStatus == {8}

(* ------------------------------------------------------------------ *)
(* Bit arithmetic on 8-bit values                                       *)
(* ------------------------------------------------------------------ *)
RECURSIVE Pow2(_)
Pow2(n) == IF n = 0 THEN 1 ELSE 2 * Pow2(n - 1)

Bit(b) == Pow2(b)
HasBit(x, b) == (x \div Pow2(b)) % 2 = 1

RECURSIVE BitOr(_, _)
BitOr(x, y) ==
    IF x = 0 THEN y
    ELSE IF y = 0 THEN x
    ELSE (IF x % 2 = 1 \/ y % 2 = 1 THEN 1 ELSE 0) + 2 * BitOr(x \div 2, y \div 2)

RECURSIVE BitAnd(_, _)
BitAnd(x, y) ==
    IF x = 0 \/ y = 0 THEN 0
    ELSE (IF x % 2 = 1 /\ y % 2 = 1 THEN 1 ELSE 0) + 2 * BitAnd(x \div 2, y \div 2)

ClearBit(x, b) == IF HasBit(x, b) THEN x - Pow2(b) ELSE x
SetBit(x, b) == IF HasBit(x, b) THEN x ELSE x + Pow2(b)

Min(a, b) == IF a < b THEN a ELSE b

VARIABLES
    pc,         \* control position of the program
    caller,     \* who called the driver function that is running
    run,        \* completed twi_scan calls
    sla,        \* loop counter of twi_scan (uint8_t)
    ack,        \* twi_scan's local `ack`
    string,     \* twi_scan's local `char string[2]`
    past,       \* the byte that follows string[2] when it is no local of twi_scan
    layout,     \* what that byte is in this build
    callerSaved,\* whether the caller's saved register still holds its value
    data,       \* argument of the running twi_write
    ret,        \* value returned by the last twi_write
    TWCR,       \* control register as the program reads it
    TWSR,       \* status register
    TWDR,       \* data register
    hwOp,       \* operation the peripheral is carrying out
    hwFault,    \* the bus is stuck: the peripheral completes nothing any more
    flagFor,    \* the operation whose completion raised TWINT
    bus,        \* protocol phase: IDLE, STARTED, ADDRESSED
    devices,    \* addresses that acknowledge
    out,        \* bytes the running (or last) twi_scan wrote to the UART
    out1,       \* bytes the twi_scan before it wrote
    nStart,     \* per address: twi_start calls of this run
    nWrite,     \* per address: twi_write calls of this run
    nStop,      \* per address: twi_stop calls of this run
    ackLog,     \* addresses whose probe twi_write reported acknowledged, this run
    TWBR,       \* bit-rate register
    DDR,        \* data-direction register of the port that carries SDA and SCL
    PORT,       \* data register of that port (pull-ups of its input pins)
    ackArg,     \* argument of the running twi_read
    rd,         \* value returned by the last twi_read
    stored      \* the last value stored to TWCR, and the function that stored it

vars == <<pc, caller, run, sla, ack, string, past, layout, callerSaved, data, ret,
          TWCR, TWSR, TWDR, hwOp, hwFault, flagFor, bus, devices, out, out1,
          nStart, nWrite, nStop, ackLog, TWBR, DDR, PORT, ackArg, rd, stored>>

progVars == <<pc, caller, run, sla, ack, string, past, callerSaved, data, ret>>
hwVars == <<TWCR, TWSR, TWDR, hwOp, flagFor>>
ghostVars == <<nStart, nWrite, nStop, ackLog>>
drvVars == <<TWBR, DDR, PORT, ackArg, rd>>

NoStore == [by |-> "none", val |-> 0]
MaxOut == 4 * MaxAcks
ZeroCount == [a \in Addr7 |-> 0]
Bump(f, a) == IF a \in Addr7 THEN [f EXCEPT ![a] = Min(f[a] + 1, MaxCount)] ELSE f


(* ------------------------------------------------------------------ *)
(* Library functions used by twi_scan                                   *)
(* ------------------------------------------------------------------ *)
\* the character itoa produces for one digit (lower-case letters above 9)
DigitChar(d) == IF d < 10 THEN 48 + d ELSE 87 + d

\* a conversion that leaves the digits in the order it produced them
RECURSIVE Digits_Reversed(_, _)
Digits_Reversed(n, radix) ==
    IF n < radix THEN <<DigitChar(n)>>
    ELSE <<DigitChar(n % radix)>> \o Digits_Reversed(n \div radix, radix)

\* itoa(n, ., radix) for n >= 0: the digits, most significant first, no
\* leading zero, no padding
RECURSIVE Digits(_, _)
Digits(n, radix) ==
    IF n < radix THEN <<DigitChar(n)>>
    ELSE Append(Digits(n \div radix, radix), DigitChar(n % radix))

\* the bytes itoa stores at its buffer argument: the digits and a NUL
Itoa(n, radix) == Append(Digits(n, radix), 0)

\* the characters uart_puts sends from memory m: those before the first NUL
RECURSIVE CStr(_)
CStr(m) ==
    IF m = <<>> \/ Head(m) = 0 THEN <<>>
    ELSE <<Head(m)>> \o CStr(Tail(m))

Take(s, n) == SubSeq(s, 1, Min(Len(s), n))

\* uart_puts: the sink o after the string at m has been sent
UartPuts(o, m) == Take(o \o CStr(m), MaxOut)

(* ------------------------------------------------------------------ *)
(* The TWI peripheral                                                   *)
(* ------------------------------------------------------------------ *)
\* the operation a value stored to TWCR starts
OpOf(w) ==
    IF HasBit(w, TWSTA) THEN "start"
    ELSE IF HasBit(w, TWSTO) THEN "stop"
    ELSE "xfer"

\* a store of w to TWCR: a one in TWINT clears the flag and starts the
\* operation the other bits select; a stop condition needs no completion
StoreTWCR(w) ==
    /\ stored' = [by |-> pc, val |-> w]
    /\ IF HasBit(w, TWINT)
       THEN /\ TWCR' = ClearBit(w, TWINT)
            /\ hwOp' = IF OpOf(w) = "stop" THEN "none" ELSE OpOf(w)
            /\ flagFor' = "none"
       ELSE /\ TWCR' = IF HasBit(TWCR, TWINT) THEN SetBit(w, TWINT) ELSE w
            /\ UNCHANGED <<hwOp, flagFor>>

\* the flag the busy-wait loops poll
FlagSet == HasBit(TWCR, TWINT)

\* the prescaler bits TWPS1:0 of the status register, which a status update
\* leaves alone
Prescaler(twsr) == BitAnd(twsr, Bit(TWPS1) + Bit(TWPS0))

\* status after the address byte in TWDR went out
AddressStatus == IF (TWDR \div 2) \in devices THEN {SLA_W_ACK} ELSE NackStatus

\* the peripheral finishes the pending operation and raises TWINT
HwComplete ==
    /\ hwOp \in {"start", "xfer"}
    /\ ~hwFault
    /\ TWCR' = SetBit(TWCR, TWINT)
    /\ flagFor' = hwOp
    /\ hwOp' = "none"
    /\ pc # "read_wait"
    /\ \E st \in (IF hwOp = "start" THEN StartStatus ELSE AddressStatus) :
          TWSR' = st + Prescaler(TWSR)
    /\ UNCHANGED <<drvVars, stored, progVars, ghostVars, TWDR, hwFault, bus, devices, layout, out, out1>>

\* the bus gets stuck while an operation is pending: no completion any more
HwFault ==
    /\ hwOp \in {"start", "xfer"}
    /\ ~hwFault
    /\ hwFault' = TRUE
    /\ UNCHANGED <<drvVars, stored, progVars, ghostVars, hwVars, bus, devices, layout, out, out1>>

(* ------------------------------------------------------------------ *)
(* Driver functions                                                     *)
(* ------------------------------------------------------------------ *)
\* the history of a run of twi_scan counts the calls twi_scan makes
Count(f, a) == IF caller = "scan" THEN Bump(f, a) ELSE f

\* where a driver function returns to
ReturnTo(next) == IF caller = "scan" THEN next ELSE "test_done"

\* line 47: the value twi_start stores to TWCR
StartCmd == Bit(TWINT) + Bit(TWSTA) + Bit(TWEN)

\* line 64: the value twi_write stores to TWCR
WriteCmd == Bit(TWINT) + Bit(TWEN)

\* a read command that always asks for an acknowledge
ReadCmd_AlwaysAck(a) == Bit(TWINT) + Bit(TWEN) + Bit(TWEA)

\* lines 91-94: the value twi_read stores to TWCR for its argument a
ReadCmd(a) ==
    IF a = TWI_ACK THEN Bit(TWINT) + Bit(TWEN) + Bit(TWEA)
    ELSE Bit(TWINT) + Bit(TWEN)

\* a stop command that leaves the peripheral's enable bit out
StopCmd_NoEnable == Bit(TWINT) + Bit(TWSTO)

\* line 109: the value twi_stop stores to TWCR
StopCmd == Bit(TWINT) + Bit(TWSTO) + Bit(TWEN)

\* twi_start, line 47: request a START condition
TwiStart ==
    /\ pc = "start"
    /\ StoreTWCR(StartCmd)
    /\ bus' = "STARTED"
    /\ nStart' = Count(nStart, sla)
    /\ pc' = "start_wait"
    /\ UNCHANGED <<drvVars, caller, run, sla, ack, string, past, callerSaved, data, ret,
                   TWSR, TWDR, hwFault, devices, layout, out, out1,
                   nWrite, nStop, ackLog>>

\* a probe byte whose address is shifted one bit too far
ProbeByte_Shift2(a) == BitOr((a * 4) % 256, TWI_WRITE)

\* a probe byte built without the shift
ProbeByte_NoShift(a) == BitOr(a % 256, TWI_WRITE)

\* the probe byte twi_scan passes to twi_write
ProbeByte(a) == BitOr((a * 2) % 256, TWI_WRITE)

\* a twi_start that gives up waiting and returns with TWINT still clear
TwiStartWait_GiveUp ==
    /\ pc = "start_wait"
    /\ pc' = ReturnTo("write")
    /\ data' = IF caller = "scan" THEN ProbeByte(sla) ELSE data
    /\ UNCHANGED <<drvVars, stored, caller, run, sla, ack, string, past, callerSaved, ret,
                   hwVars, hwFault, bus, devices, layout, out, out1, ghostVars>>

\* twi_start, line 48: leave the busy-wait once TWINT is set, and return;
\* twi_scan then calls twi_write with the probe byte
TwiStartWait ==
    /\ pc = "start_wait"
    /\ FlagSet
    /\ pc' = ReturnTo("write")
    /\ data' = IF caller = "scan" THEN ProbeByte(sla) ELSE data
    /\ UNCHANGED <<drvVars, stored, caller, run, sla, ack, string, past, callerSaved, ret,
                   hwVars, hwFault, bus, devices, layout, out, out1, ghostVars>>

\* twi_write, lines 63-64: load the data register and trigger transmission
TwiWrite ==
    /\ pc = "write"
    /\ TWDR' = data
    /\ StoreTWCR(WriteCmd)
    /\ bus' = "ADDRESSED"
    /\ nWrite' = Count(nWrite, data \div 2)
    /\ pc' = "write_wait"
    /\ UNCHANGED <<drvVars, caller, run, sla, ack, string, past, callerSaved, data, ret,
                   TWSR, hwFault, devices, layout, out, out1,
                   nStart, nStop, ackLog>>

\* a twi_write that reads the status without waiting for TWINT
TwiWriteWait_NoWait ==
    /\ pc = "write_wait"
    /\ pc' = "write_status"
    /\ UNCHANGED <<drvVars, stored, caller, run, sla, ack, string, past, callerSaved, data, ret,
                   hwVars, hwFault, bus, devices, layout, out, out1, ghostVars>>

\* twi_write, line 65: leave the busy-wait once TWINT is set
TwiWriteWait ==
    /\ pc = "write_wait"
    /\ FlagSet
    /\ pc' = "write_status"
    /\ UNCHANGED <<drvVars, stored, caller, run, sla, ack, string, past, callerSaved, data, ret,
                   hwVars, hwFault, bus, devices, layout, out, out1, ghostVars>>

\* a classification of the unmasked status register
StatusResult_NoMask(twsr) ==
    IF twsr = SLA_W_ACK \/ twsr = DATA_ACK \/ twsr = SLA_R_ACK THEN 0 ELSE 1

\* twi_write, lines 68-78: 0 for the three ACK codes, 1 otherwise
StatusResult(twsr) ==
    LET twi_status == BitAnd(twsr, StatusMask)
    IN  IF twi_status = SLA_W_ACK \/ twi_status = DATA_ACK \/ twi_status = SLA_R_ACK
        THEN 0 ELSE 1

\* a scan that reports before it releases the bus, and never releases it
AfterWrite_SkipStop(r) == "report"

\* a scan that releases the bus only after an acknowledged probe
AfterWrite_StopOnAck(r) == IF r = 0 THEN "stop" ELSE "report"

\* lines 127-128: twi_scan calls twi_stop next, whatever twi_write returned
AfterWrite(r) == "stop"

\* twi_write, lines 68-78, and the assignment of its result at line 127
TwiWriteStatus ==
    /\ pc = "write_status"
    /\ ret' = StatusResult(TWSR)
    /\ ack' = IF caller = "scan" THEN ret' ELSE ack
    /\ ackLog' = IF caller = "scan" /\ ret' = 0
                 THEN Take(Append(ackLog, data \div 2), MaxAcks) ELSE ackLog
    /\ pc' = ReturnTo(AfterWrite(ret'))
    /\ UNCHANGED <<drvVars, stored, caller, run, sla, string, past, callerSaved, data,
                   hwVars, hwFault, bus, devices, layout, out, out1,
                   nStart, nWrite, nStop>>

\* a twi_stop that waits for TWINT, as the other functions do
TwiStop_Blocking ==
    /\ pc = "stop"
    /\ StoreTWCR(StopCmd)
    /\ bus' = "IDLE"
    /\ nStop' = Count(nStop, sla)
    /\ pc' = "stop_wait"
    /\ UNCHANGED <<drvVars, caller, run, sla, ack, string, past, callerSaved, data, ret,
                   TWSR, TWDR, hwFault, devices, layout, out, out1,
                   nStart, nWrite, ackLog>>

\* a twi_stop that also puts the bit-rate register back to its reset value
TwiStop_ResetsRate ==
    /\ pc = "stop"
    /\ StoreTWCR(StopCmd)
    /\ bus' = "IDLE"
    /\ nStop' = Count(nStop, sla)
    /\ pc' = ReturnTo("report")
    /\ TWBR' = 0
    /\ UNCHANGED <<DDR, PORT, ackArg, rd, caller, run, sla, ack, string, past,
                   callerSaved, data, ret, TWSR, TWDR, hwFault, devices, layout,
                   out, out1, nStart, nWrite, ackLog>>

\* twi_stop, line 109: request a STOP condition and return at once
TwiStop ==
    /\ pc = "stop"
    /\ StoreTWCR(StopCmd)
    /\ bus' = "IDLE"
    /\ nStop' = Count(nStop, sla)
    /\ pc' = ReturnTo("report")
    /\ UNCHANGED <<drvVars, caller, run, sla, ack, string, past, callerSaved, data, ret,
                   TWSR, TWDR, hwFault, devices, layout, out, out1,
                   nStart, nWrite, ackLog>>


\* twi_read, lines 91-94: trigger reception, with or without acknowledge
TwiRead ==
    /\ pc = "read"
    /\ StoreTWCR(ReadCmd(ackArg))
    /\ pc' = "read_wait"
    /\ UNCHANGED <<drvVars, caller, run, sla, ack, string, past, callerSaved, data, ret,
                   TWSR, TWDR, hwFault, bus, devices, layout, out, out1, ghostVars>>

\* twi_read, lines 95-97: leave the busy-wait once TWINT is set and return TWDR
TwiReadWait ==
    /\ pc = "read_wait"
    /\ FlagSet
    /\ rd' = TWDR
    /\ pc' = ReturnTo("read_done")
    /\ UNCHANGED <<TWBR, DDR, PORT, ackArg, stored, caller, run, sla, ack, string, past,
                   callerSaved, data, ret, hwVars, hwFault, bus, devices, layout,
                   out, out1, ghostVars>>

\* the two bus pins as a mask
PinMask == Bit(TWI_SDA_PIN) + Bit(TWI_SCL_PIN)
\* x & ~m for 8-bit x
ClearMask(x, m) == BitAnd(x, 255 - m)

\* a twi_init that assigns the registers instead of changing the pins' bits
TwiInit_Assign ==
    /\ pc = "boot"
    /\ DDR' = 0
    /\ PORT' = PinMask
    /\ TWSR' = 0
    /\ TWBR' = TWI_BIT_RATE_REG
    /\ pc' = "test_done"
    /\ UNCHANGED <<ackArg, rd, stored, caller, run, sla, ack, string, past, callerSaved,
                   data, ret, TWCR, TWDR, hwOp, flagFor, hwFault, bus, devices, layout,
                   out, out1, ghostVars>>

\* twi_init, lines 30-35: pins to input with pull-up, prescaler 1, bit rate
TwiInit ==
    /\ pc = "boot"
    /\ DDR' = ClearMask(DDR, PinMask)
    /\ PORT' = BitOr(PORT, PinMask)
    /\ TWSR' = ClearMask(TWSR, Bit(TWPS1) + Bit(TWPS0))
    /\ TWBR' = TWI_BIT_RATE_REG
    /\ pc' = "test_done"
    /\ UNCHANGED <<ackArg, rd, stored, caller, run, sla, ack, string, past, callerSaved,
                   data, ret, TWCR, TWDR, hwOp, flagFor, hwFault, bus, devices, layout,
                   out, out1, ghostVars>>

(* ------------------------------------------------------------------ *)
(* twi_scan                                                             *)
(* ------------------------------------------------------------------ *)
\* a loop counter that keeps its value from one call to the next
LoopInit_Keep(s) == s

\* line 125: the loop counter's initial value, whatever it held before
LoopInit(s) == SlaFirst

\* the caller invokes twi_scan; line 125 initialises the loop counter
CallScan ==
    /\ pc = "main"
    /\ run < NumRuns
    /\ caller' = "scan"
    /\ sla' = LoopInit(sla)
    /\ pc' = "scan_loop"
    /\ out1' = out
    /\ out' = <<>>
    /\ nStart' = ZeroCount
    /\ nWrite' = ZeroCount
    /\ nStop' = ZeroCount
    /\ ackLog' = <<>>
    /\ UNCHANGED <<drvVars, stored, run, ack, string, past, callerSaved, data, ret,
                   hwVars, hwFault, bus, devices, layout>>

\* line 125: the loop condition
LoopCond(s) == s < SlaLimit

\* line 125 and 126: another iteration, which begins by calling twi_start
ScanLoop ==
    /\ pc = "scan_loop"
    /\ LoopCond(sla)
    /\ pc' = "start"
    /\ UNCHANGED <<drvVars, stored, caller, run, sla, ack, string, past, callerSaved, data, ret,
                   hwVars, hwFault, bus, devices, layout, out, out1, ghostVars>>

\* line 125 and 144: the loop ends and twi_scan returns
ScanReturn ==
    /\ pc = "scan_loop"
    /\ ~LoopCond(sla)
    /\ pc' = "main"
    /\ run' = run + 1
    /\ UNCHANGED <<drvVars, stored, caller, sla, ack, string, past, callerSaved, data, ret,
                   hwVars, hwFault, bus, devices, layout, out, out1, ghostVars>>

\* line 123: the size of `char string[2]`
BufSize == 2

\* line 132: the bytes itoa stores, split into those that land in string[0..1]
\* and the one, if any, that lands behind the array
ItoaInBuffer(n) ==
    LET b == Itoa(n, Radix)
    IN  <<b[1], IF Len(b) >= 2 THEN b[2] ELSE string[2]>>
ItoaOverflows(n) == Len(Itoa(n, Radix)) > 2

\* the memory uart_puts walks through from `string` on, after itoa stored n
StringMemory(n) ==
    ItoaInBuffer(n) \o
    <<IF ItoaOverflows(n) THEN 0
      ELSE IF layout = "sla" THEN sla
      ELSE IF layout = "ack" THEN ack
      ELSE past>>

\* a report that lacks the line break
Report_NoBreak(o, n) == UartPuts(o, StringMemory(n))

\* lines 131-133: what the sink holds after the report for n
Report(o, n) == UartPuts(UartPuts(o, <<CR, LF, 0>>), StringMemory(n))

\* a report that is not guarded by the result of the probe
Acked_Any(a) == TRUE

\* line 130: the test that guards the report
Acked(a) == a = 0

\* lines 130-134 and the sla++ of line 125
ScanReport ==
    /\ pc = "report"
    /\ IF Acked(ack)
       THEN LET over == ItoaOverflows(sla)
                sla1 == IF over /\ layout = "sla" THEN 0 ELSE sla
            IN  /\ out' = Report(out, sla)
                /\ string' = ItoaInBuffer(sla)
                /\ ack' = IF over /\ layout = "ack" THEN 0 ELSE ack
                /\ past' = IF over /\ layout \in {"pad", "saved"} THEN 0 ELSE past
                /\ callerSaved' = IF over /\ layout = "saved" THEN FALSE ELSE callerSaved
                /\ sla' = (sla1 + 1) % 256
       ELSE /\ sla' = (sla + 1) % 256
            /\ UNCHANGED <<out, string, ack, past, callerSaved>>
    /\ pc' = "scan_loop"
    /\ UNCHANGED <<drvVars, stored, caller, run, data, ret, hwVars, hwFault, bus, devices, layout,
                   out1, ghostVars>>

(* ------------------------------------------------------------------ *)
(* The program: twi_init has run, then twi_scan is called               *)
(* ------------------------------------------------------------------ *)
Init ==
    /\ pc = "main"
    /\ caller = "main"
    /\ run = 0
    /\ sla = 0
    /\ ack = 0
    /\ string = <<0, 0>>
    /\ past = 8
    /\ layout \in Layouts
    /\ callerSaved = TRUE
    /\ data = 0
    /\ ret = 0
    /\ TWCR = 0
    /\ TWSR = StatusMask
    /\ TWDR = 255
    /\ hwOp = "none"
    /\ hwFault = FALSE
    /\ flagFor = "none"
    /\ bus = "IDLE"
    /\ devices \in DeviceSets
    /\ out = <<>>
    /\ out1 = <<>>
    /\ nStart = ZeroCount
    /\ nWrite = ZeroCount
    /\ nStop = ZeroCount
    /\ ackLog = <<>>
    /\ TWBR = TWI_BIT_RATE_REG
    /\ DDR = 0
    /\ PORT = Bit(TWI_SDA_PIN) + Bit(TWI_SCL_PIN)
    /\ ackArg = 0
    /\ rd = 0
    /\ stored = NoStore

Next ==
    \/ CallScan
    \/ ScanLoop
    \/ TwiStart
    \/ TwiStartWait
    \/ TwiWrite
    \/ TwiWriteWait
    \/ TwiWriteStatus
    \/ TwiStop
    \/ ScanReport
    \/ ScanReturn
    \/ HwComplete
    \/ HwFault

Spec == Init /\ [][Next]_vars

\* The peripheral completes every operation it is asked for: no bus fault.
\* The processor always executes its next instruction and the peripheral
\* always finishes the pending operation, so some step is always taken.
NextLive ==
    \/ CallScan
    \/ ScanLoop
    \/ TwiStart
    \/ TwiStartWait
    \/ TwiWrite
    \/ TwiWriteWait
    \/ TwiWriteStatus
    \/ TwiStop
    \/ ScanReport
    \/ ScanReturn
    \/ HwComplete

SpecLive == Init /\ [][NextLive]_vars /\ WF_vars(NextLive)

\* twi_write called on its own, after a completed twi_start, with the
\* peripheral free to report any status
WriteInputs == {120, 121, 165}

InitWrite ==
    /\ pc = "write"
    /\ caller = "test"
    /\ run = 0
    /\ sla = 0
    /\ ack = 0
    /\ string = <<0, 0>>
    /\ past = 8
    /\ layout = "pad"
    /\ callerSaved = TRUE
    /\ data \in WriteInputs
    /\ ret = 0
    /\ TWCR = Bit(TWINT) + Bit(TWSTA) + Bit(TWEN)
    /\ TWSR \in StartStatus
    /\ TWDR = 255
    /\ hwOp = "none"
    /\ hwFault = FALSE
    /\ flagFor = "start"
    /\ bus = "STARTED"
    /\ devices = {}
    /\ out = <<>>
    /\ out1 = <<>>
    /\ nStart = ZeroCount
    /\ nWrite = ZeroCount
    /\ nStop = ZeroCount
    /\ ackLog = <<>>
    /\ TWBR = TWI_BIT_RATE_REG
    /\ DDR = 0
    /\ PORT = Bit(TWI_SDA_PIN) + Bit(TWI_SCL_PIN)
    /\ ackArg = 0
    /\ rd = 0
    /\ stored = NoStore

\* the peripheral finishes the transfer with an arbitrary status register value
HwCompleteAny ==
    /\ hwOp = "xfer"
    /\ TWCR' = SetBit(TWCR, TWINT)
    /\ flagFor' = hwOp
    /\ hwOp' = "none"
    /\ TWSR' \in Byte
    /\ UNCHANGED <<drvVars, stored, progVars, ghostVars, TWDR, hwFault, bus, devices, layout, out, out1>>

NextWrite ==
    \/ TwiWrite
    \/ TwiWriteWait
    \/ TwiWriteStatus
    \/ HwCompleteAny

SpecWrite == InitWrite /\ [][NextWrite]_vars

\* twi_init called on its own, on registers of any content
RegSamples == {0, 255, 48, 207, 170, 85}
StatusSamples == {248, 249, 251, 255, 0, 3}
RateSamples == {0, 72, 255}

InitBoot ==
    /\ pc = "boot"
    /\ caller = "test"
    /\ run = 0
    /\ sla = 0
    /\ ack = 0
    /\ string = <<0, 0>>
    /\ past = 8
    /\ layout = "pad"
    /\ callerSaved = TRUE
    /\ data = 0
    /\ ret = 0
    /\ TWCR = 0
    /\ TWSR \in StatusSamples
    /\ TWDR = 255
    /\ hwOp = "none"
    /\ hwFault = FALSE
    /\ flagFor = "none"
    /\ bus = "IDLE"
    /\ devices = {}
    /\ out = <<>>
    /\ out1 = <<>>
    /\ nStart = ZeroCount
    /\ nWrite = ZeroCount
    /\ nStop = ZeroCount
    /\ ackLog = <<>>
    /\ TWBR \in RateSamples
    /\ DDR \in RegSamples
    /\ PORT \in RegSamples
    /\ ackArg = 0
    /\ rd = 0
    /\ stored = NoStore

NextInit == TwiInit

SpecInit == InitBoot /\ [][NextInit]_vars

\* The driver's functions called one after the other in any order, after one
\* twi_init, with twi_scan among them.
ReadArgs == {0, 1, 2}
ReadBytes == {0, 90}

InitDriver ==
    /\ pc = "boot"
    /\ caller = "test"
    /\ run = 0
    /\ sla = 0
    /\ ack = 0
    /\ string = <<0, 0>>
    /\ past = 8
    /\ layout \in {"pad", "sla"}
    /\ callerSaved = TRUE
    /\ data = 0
    /\ ret = 0
    /\ TWCR = 0
    /\ TWSR = 251
    /\ TWDR = 255
    /\ hwOp = "none"
    /\ hwFault = FALSE
    /\ flagFor = "none"
    /\ bus = "IDLE"
    /\ devices = {60}
    /\ out = <<>>
    /\ out1 = <<>>
    /\ nStart = ZeroCount
    /\ nWrite = ZeroCount
    /\ nStop = ZeroCount
    /\ ackLog = <<>>
    /\ TWBR = 0
    /\ DDR = 255
    /\ PORT = 0
    /\ ackArg = 0
    /\ rd = 0
    /\ stored = NoStore

\* the caller picks the next driver function and its argument
TestCall ==
    /\ pc = "test_done"
    /\ \E f \in {"start", "write", "read", "stop"} :
          /\ pc' = f
          /\ data' \in (IF f = "write" THEN WriteInputs ELSE {data})
          /\ ackArg' \in (IF f = "read" THEN ReadArgs ELSE {ackArg})
    /\ caller' = "test"
    /\ UNCHANGED <<TWBR, DDR, PORT, rd, stored, run, sla, ack, string, past, callerSaved,
                   ret, hwVars, hwFault, bus, devices, layout, out, out1, ghostVars>>

\* the caller goes on, with the bus idle, to the point from which it calls
\* twi_scan
TestScan ==
    /\ pc = "test_done"
    /\ run < NumRuns
    /\ bus = "IDLE"
    /\ pc' = "main"
    /\ UNCHANGED <<drvVars, stored, caller, run, sla, ack, string, past, callerSaved,
                   data, ret, hwVars, hwFault, bus, devices, layout, out, out1, ghostVars>>

\* twi_scan has returned and the caller goes back to single calls
TestResume ==
    /\ pc = "main"
    /\ run >= 1
    /\ pc' = "test_done"
    /\ caller' = "test"
    /\ UNCHANGED <<drvVars, stored, run, sla, ack, string, past, callerSaved,
                   data, ret, hwVars, hwFault, bus, devices, layout, out, out1, ghostVars>>

\* the peripheral finishes a reception: a byte in TWDR, status "data received"
HwReceive ==
    /\ hwOp = "xfer"
    /\ pc = "read_wait"
    /\ ~hwFault
    /\ TWCR' = SetBit(TWCR, TWINT)
    /\ flagFor' = hwOp
    /\ hwOp' = "none"
    /\ TWDR' \in ReadBytes
    /\ TWSR' = (IF HasBit(TWCR, TWEA) THEN 80 ELSE 88) + Prescaler(TWSR)
    /\ UNCHANGED <<drvVars, stored, progVars, ghostVars, hwFault, bus, devices, layout,
                   out, out1>>

\* the bus gets stuck at any moment: the peripheral completes nothing any more
HwDead ==
    /\ ~hwFault
    /\ hwFault' = TRUE
    /\ UNCHANGED <<drvVars, stored, progVars, ghostVars, hwVars, bus, devices, layout,
                   out, out1>>

NextDriver ==
    \/ TwiInit
    \/ TestCall
    \/ TestScan
    \/ TestResume
    \/ TwiStart
    \/ TwiStartWait
    \/ TwiWrite
    \/ TwiWriteWait
    \/ TwiWriteStatus
    \/ TwiRead
    \/ TwiReadWait
    \/ TwiStop
    \/ CallScan
    \/ ScanLoop
    \/ ScanReport
    \/ ScanReturn
    \/ HwComplete
    \/ HwReceive
    \/ HwDead

SpecDriver == InitDriver /\ [][NextDriver]_vars

TypeOK ==
    /\ pc \in {"main", "scan_loop", "start", "start_wait", "write", "write_wait",
               "write_status", "stop", "report", "test_done", "boot", "read",
               "read_wait"}
    /\ sla \in Byte /\ ack \in Byte /\ data \in Byte /\ ret \in {0, 1}
    /\ TWCR \in Byte /\ TWSR \in Byte /\ TWDR \in Byte
    /\ Len(out) <= MaxOut /\ Len(ackLog) <= MaxAcks
    /\ bus \in {"IDLE", "STARTED", "ADDRESSED"}


(* ------------------------------------------------------------------ *)
(* Properties                                                           *)
(* ------------------------------------------------------------------ *)
ScanRange == SlaFirst..(SlaLimit - 1)
ScanDone == pc = "main" /\ run >= 1

\* C1: twi_scan never issues a twi_write whose probe byte carries an address
\* outside [8,119].
C1_ProbesOnlyInRange == \A a \in Addr7 : nWrite[a] > 0 => a \in ScanRange

\* C2: at every moment the operations issued for an address of [8,119] are
\* ordered start, write, stop, and when a run of twi_scan has completed each
\* address of [8,119] got exactly one twi_start, one twi_write and one twi_stop.
C2_OneProbePerAddress ==
    /\ \A a \in ScanRange :
          /\ nStop[a] <= nWrite[a]
          /\ nWrite[a] <= nStart[a]
          /\ nStart[a] <= nStop[a] + 1
    /\ ScanDone => \A a \in ScanRange :
                      nStart[a] = 1 /\ nWrite[a] = 1 /\ nStop[a] = 1

\* a completed run in which one probe was acknowledged and all others were not
C2_Witness == ScanDone /\ Len(ackLog) = 1 /\ nStop[SlaLimit - 1] = 1

\* the sixteen hexadecimal digit characters, lower case
HexChars == <<48, 49, 50, 51, 52, 53, 54, 55, 56, 57, 97, 98, 99, 100, 101, 102>>
\* an address in two hexadecimal characters
Hex2(a) == <<HexChars[(a \div 16) + 1], HexChars[(a % 16) + 1]>>
\* an address in hexadecimal without a leading zero
HexPlain(a) == IF a < 16 THEN <<HexChars[a + 1]>> ELSE Hex2(a)

\* the lines for the addresses of log, each a line break and the address
RECURSIVE LinesOf(_, _)
LinesOf(log, padded) ==
    IF log = <<>> THEN <<>>
    ELSE <<CR, LF>> \o (IF padded THEN Hex2(Head(log)) ELSE HexPlain(Head(log)))
         \o LinesOf(Tail(log), padded)

\* the acknowledged probes whose report step has been taken
ReportPending == pc \in {"stop", "report"} /\ ack = 0
Reported == IF ReportPending THEN SubSeq(ackLog, 1, Len(ackLog) - 1) ELSE ackLog

C4_NoOutputWithoutAck ==
    /\ [](ackLog = <<>> => out = <<>>)
    /\ [][(pc = "report" /\ ack # 0) => out' = out]_vars

\* a whole scan in which no probe was acknowledged has completed
C4_Witness == ScanDone /\ ackLog = <<>> /\ ret = 1 /\ nStop[SlaLimit - 1] = 1


\* C5: twi_write returns 0 exactly when the status register, its low three
\* bits disregarded, reads 0x18, 0x28 or 0x40, and 1 for every other value.
C5_AckForThreeCodes ==
    pc = "test_done" =>
        ret = (IF TWSR \in (24..31) \cup (40..47) \cup (64..71) THEN 0 ELSE 1)

\* twi_write returned "acknowledged" for a status with low bits set
C5_Witness == pc = "test_done" /\ TWSR = 43 /\ ret = 0

\* C6: twi_start is issued only on an idle bus, twi_write only after a
\* twi_start, twi_stop after every twi_write, and the bus is idle between
\* probes and when twi_scan returns.
C6_BusProtocol ==
    /\ pc = "start" => bus = "IDLE"
    /\ pc = "start_wait" => bus = "STARTED"
    /\ pc = "write" => bus = "STARTED"
    /\ pc \in {"write_wait", "write_status", "stop"} => bus = "ADDRESSED"
    /\ pc \in {"report", "scan_loop", "main"} => bus = "IDLE"

\* the bus was released after a probe that was not acknowledged
C6_Witness == pc = "report" /\ ack # 0 /\ bus = "IDLE" /\ ackLog # <<>>

\* C7: when twi_write reads the status register, TWINT is set and was raised
\* by the completion of the transmission this call triggered.
C7_StatusReadAfterCompletion ==
    pc = "write_status" => (FlagSet /\ flagFor = "xfer" /\ hwOp = "none")

\* twi_write is about to read the status of a completed, acknowledged transfer
C7_Witness == pc = "write_status" /\ FlagSet /\ TWSR = SLA_W_ACK

\* C8: with a peripheral that completes every operation, twi_scan eventually
\* returns having probed every address of [8,119] once, address 119 last.
C8_ScanTerminates ==
    <>(/\ ScanDone
       /\ data = ProbeByte(SlaLimit - 1)
       /\ \A a \in ScanRange : nWrite[a] = 1)

Waiting == pc \in {"start_wait", "write_wait"}

\* C9: while TWINT is clear the caller stays in its busy-wait and writes
\* nothing; once the bus is stuck TWINT stays clear for good; and a bus stuck
\* from the very first twi_start leaves the output empty.
C9_BlockedWhileFlagClear ==
    /\ [][(Waiting /\ ~FlagSet) => (pc' = pc /\ out' = out /\ run' = run)]_vars
    /\ [](hwFault => (Waiting /\ ~FlagSet))
    /\ [][hwFault => hwFault']_vars
    /\ []((hwFault /\ run = 0 /\ \A a \in Addr7 : nWrite[a] = 0) => out = <<>>)

\* the bus got stuck during a probe that follows an emitted report
C9_Witness == hwFault /\ pc = "write_wait" /\ out # <<>>

\* C10: a second run of twi_scan, with the same devices, writes the same
\* bytes as the run before it.
C10_SecondRunSameOutput == (pc = "main" /\ run >= 2) => out = out1

\* two runs have completed and each reported two devices
C10_Witness == pc = "main" /\ run = 2 /\ Len(out) = 8 /\ Len(out1) = 8


\* C11: the lines of a run appear in strictly ascending address order: of two
\* acknowledged probes the earlier one carries the smaller address.
C11_AscendingLines ==
    \A i, j \in 1..Len(ackLog) :
        (i < j /\ ackLog[i] \in ScanRange /\ ackLog[j] \in ScanRange)
            => ackLog[i] < ackLog[j]

\* C12: with 0x3c the only acknowledging address, the output of a finished
\* twi_scan is exactly a line break followed by "3c".
C12_Only3c == (ScanDone /\ devices = {60}) => out = <<CR, LF, 51, 99>>

\* a scan of a bus whose only device sits at 0x3c has finished with output
C12_Witness == ScanDone /\ devices = {60} /\ Len(out) = 4

\* C17: for every address twi_scan reports, the bytes itoa stores, NUL
\* included, fit into the two bytes of `string`.
C17_ItoaFitsBuffer ==
    (pc = "report" /\ Acked(ack)) => Len(Itoa(sla, Radix)) <= BufSize

\* C18: for an address of [8,119] the probe byte is twice the address plus the
\* write bit with nothing cut off, the address is the byte shifted right, and
\* no other address of the range yields the same byte.
C18_ProbeByteKeepsAddress ==
    (pc = "write" /\ caller = "scan" /\ sla \in ScanRange) =>
        /\ data = 2 * sla + TWI_WRITE
        /\ data \in Byte
        /\ data \div 2 = sla
        /\ data % 2 = TWI_WRITE
        /\ \A b \in ScanRange \ {sla} : ProbeByte(b) # data

\* twi_write is entered with the probe byte of the last address
C18_Witness == pc = "write" /\ caller = "scan" /\ sla = SlaLimit - 1 /\ data = 238

\* C20: the sink is written only in the report step, which comes after the
\* twi_stop of the probe and leaves the bus idle; never between a twi_start
\* and its twi_stop.
C20_ReportOnIdleBus ==
    [][(out' # out /\ pc # "main") =>
          /\ pc = "report"
          /\ bus = "IDLE" /\ bus' = "IDLE"
          /\ nStop[sla] >= 1 /\ nStop[sla] = nStart[sla]]_vars

\* a report has been written and the bus is idle before the next twi_start
C20_Witness == pc = "scan_loop" /\ out # <<>> /\ bus = "IDLE" /\ ack = 0


\* C13: twi_stop can always take its step, whatever the flag and the state of
\* the peripheral; that one step stores the stop request and returns, without
\* TWINT having been raised; and a twi_start called next can take its step.
C13_StopReturnsAtOnce ==
    /\ [](pc = "stop" => ENABLED TwiStop)
    /\ [][(pc = "stop" /\ pc' # pc) =>
             /\ pc' = ReturnTo("report")
             /\ stored' = [by |-> "stop", val |-> StopCmd]
             /\ ~FlagSet']_vars
    /\ [](pc = "start" => ENABLED TwiStart)

\* twi_stop has returned on a stuck bus and twi_start is being called next
C13_Witness == pc = "start" /\ stored.by = "stop" /\ hwFault /\ ~FlagSet

\* C14: the value twi_read stores to TWCR has TWEA set exactly when the
\* argument equals TWI_ACK, and twi_read returns the content of TWDR, in a
\* state where the completion of its reception has set TWINT.
C14_ReadAckAndResult ==
    /\ [][(pc = "read" /\ pc' # pc) =>
             /\ stored'.by = "read"
             /\ HasBit(stored'.val, TWEA) <=> (ackArg = TWI_ACK)]_vars
    /\ [][(pc = "read_wait" /\ pc' # pc) =>
             /\ FlagSet /\ flagFor = "xfer"
             /\ rd' = TWDR]_vars

\* twi_read has returned a received byte that it did not acknowledge
C14_Witness ==
    /\ pc = "test_done" /\ stored.by = "read" /\ ackArg # TWI_ACK
    /\ ~HasBit(stored.val, TWEA) /\ rd = 90 /\ TWDR = 90

\* the bus configuration: bit rate, prescaler, direction and pull-up of the pins
Config == <<TWBR, Prescaler(TWSR), BitAnd(DDR, PinMask), BitAnd(PORT, PinMask)>>

\* C15: once twi_init has run, no step of twi_start, twi_write, twi_read,
\* twi_stop or twi_scan changes the bus configuration.
C15_ConfigImmutable == [][pc # "boot" => Config' = Config]_vars

\* after twi_init a scan and a read have run and the configuration is in place
C15_Witness ==
    /\ pc = "test_done" /\ run >= 1 /\ stored.by = "read"
    /\ Config = <<TWI_BIT_RATE_REG, 0, 0, PinMask>>

Bits == 0..7
Pins == {TWI_SDA_PIN, TWI_SCL_PIN}

\* C16: twi_init leaves the two pins inputs with pull-up, the prescaler bits
\* clear and TWBR at the configured value, and no other bit of DDR, PORT and
\* TWSR changed.
C16_InitEffect ==
    [][pc = "boot" =>
         /\ TWBR' = TWI_BIT_RATE_REG
         /\ \A b \in Bits :
               /\ HasBit(DDR', b) <=> (b \notin Pins /\ HasBit(DDR, b))
               /\ HasBit(PORT', b) <=> (b \in Pins \/ HasBit(PORT, b))
               /\ HasBit(TWSR', b) <=> (b \notin {TWPS1, TWPS0} /\ HasBit(TWSR, b))]_vars

\* twi_init has run on registers that had every bit set
C16_Witness == pc = "test_done" /\ DDR = 207 /\ PORT = 255 /\ TWSR = 252 /\ TWBR = 72

\* C19: every value stored to TWCR has TWEN and TWINT set, TWSTA only if
\* twi_start stored it, TWSTO only if twi_stop stored it, never both.
C19_ControlValues ==
    stored.by # "none" =>
        /\ HasBit(stored.val, TWEN)
        /\ HasBit(stored.val, TWINT)
        /\ HasBit(stored.val, TWSTA) => stored.by = "start"
        /\ HasBit(stored.val, TWSTO) => stored.by = "stop"
        /\ ~(HasBit(stored.val, TWSTA) /\ HasBit(stored.val, TWSTO))

\* each of the four functions has stored its value; here the stop request
C19_Witness == stored = [by |-> "stop", val |-> 148] /\ rd = 90 /\ ret = 1

====
